---- MODULE Spec2Model ----
(***************************************************************************)
(* Dependency-graph builder of PR2/main.py: sanitize_requirement, the three *)
(* Dependency Sources (LocalGraphSource, PyPISource,                       *)
(* LocalMetadataFilesSource), DependencyGraph.build_bfs,                   *)
(* DependencyGraph.export_adjlist / save_json, DependencyGraph.ascii_tree.  *)
(*                                                                         *)
(* A Python str is a sequence of one-character strings, so that the string *)
(* functions (split, strip, re.sub, re.split, lower, in, sorted) are       *)
(* computed character by character.                                        *)
(***************************************************************************)
EXTENDS Integers, Sequences, FiniteSets, TLC

\* ------------------------------------------------------------------ bounds
\* longest dependency list of a fixture entry
MaxDeps == 2
\* largest max_depth a builder is constructed with
MaxDepthArg == 3

\* ----------------------------------------------------------------- strings
\* Code point of a character: the order of Python's str comparison.
Ord(c) ==
    CASE c = "\n" -> 10 [] c = " " -> 32 [] c = "!" -> 33 [] c = "(" -> 40 [] c = ")" -> 41
      [] c = "1" -> 49 [] c = ";" -> 59 [] c = "<" -> 60 [] c = "=" -> 61
      [] c = ">" -> 62 [] c = "A" -> 65 [] c = "B" -> 66 [] c = "C" -> 67
      [] c = "D" -> 68 [] c = "[" -> 91 [] c = "]" -> 93 [] c = "a" -> 97 [] c = "b" -> 98
      [] c = "c" -> 99 [] c = "x" -> 120 [] c = "/" -> 47

\* str.lower() on one character
LowerChar(c) ==
    CASE c = "A" -> "a" [] c = "B" -> "b" [] c = "C" -> "c" [] OTHER -> c

\* str.lower()
Lower(s) == [i \in 1..Len(s) |-> LowerChar(s[i])]

\* characters matched by \s and removed by str.strip()
Whitespace == {" ", "\n"}

\* the alternatives of the pattern r"\s|\(|<|>|=|!"
SplitChars == Whitespace \cup {"(", "<", ">", "=", "!"}

\* s[i:] (1-based i)
Drop(s, i) == SubSeq(s, i, Len(s))

\* index of the first character of s that is in set cs, 0 when there is none
FirstIn(s, cs) ==
    IF \E i \in 1..Len(s) : s[i] \in cs
    THEN CHOOSE i \in 1..Len(s) : s[i] \in cs /\ \A j \in 1..(i-1) : s[j] \notin cs
    ELSE 0

\* s.split(sep, 1)[0] and re.split(pattern, s)[0]: the text before the first separator
Before(s, cs) ==
    IF FirstIn(s, cs) = 0 THEN s ELSE SubSeq(s, 1, FirstIn(s, cs) - 1)

\* str.strip()
Strip(s) ==
    IF \A i \in 1..Len(s) : s[i] \in Whitespace
    THEN << >>
    ELSE LET lo == CHOOSE i \in 1..Len(s) :
                      s[i] \notin Whitespace /\ \A j \in 1..(i-1) : s[j] \in Whitespace
             hi == CHOOSE i \in 1..Len(s) :
                      s[i] \notin Whitespace /\ \A j \in (i+1)..Len(s) : s[j] \in Whitespace
         IN  SubSeq(s, lo, hi)

\* RemoveExtras with the bug of count=1: only the first "[...]" segment removed
RemoveFirstExtra(s) ==
    LET opens == {i \in 1..Len(s) :
                    /\ s[i] = "["
                    /\ \E j \in (i+1)..Len(s) :
                          s[j] = "]" /\ \A k \in (i+1)..(j-1) : s[k] # "\n"}
    IN  IF opens = {}
        THEN s
        ELSE LET i == CHOOSE x \in opens : \A y \in opens : x <= y
                 j == CHOOSE x \in (i+1)..Len(s) :
                         s[x] = "]" /\ \A y \in (i+1)..(x-1) : s[y] # "]"
             IN  SubSeq(s, 1, i - 1) \o Drop(s, j + 1)

\* re.sub(r"\[.*?\]", "", s): every leftmost, shortest "[...]" segment removed;
\* without re.DOTALL the dot matches no line break, so a segment lies in one line
RECURSIVE RemoveExtras(_)
RemoveExtras(s) ==
    LET opens == {i \in 1..Len(s) :
                    /\ s[i] = "["
                    /\ \E j \in (i+1)..Len(s) :
                          s[j] = "]" /\ \A k \in (i+1)..(j-1) : s[k] # "\n"}
    IN  IF opens = {}
        THEN s
        ELSE LET i == CHOOSE x \in opens : \A y \in opens : x <= y
                 j == CHOOSE x \in (i+1)..Len(s) :
                         s[x] = "]" /\ \A y \in (i+1)..(x-1) : s[y] # "]"
             IN  SubSeq(s, 1, i - 1) \o RemoveExtras(Drop(s, j + 1))

\* Each line of the function assigns req anew; a set of one element stands for
\* the value assigned, so that the next line reads a value and not an expression.
sanitize_requirement(req) ==
    IF req = << >>
    THEN req
    ELSE LET stripped == {Strip(Before(r, {";"})) : r \in {req}}
             noextras == {RemoveExtras(r) : r \in stripped}
             result   == {Before(r, SplitChars) : r \in noextras}
         IN  CHOOSE r \in result : TRUE

\* `sub in s` for Python strings
Contains(s, sub) ==
    \E i \in 0..(Len(s) - Len(sub)) : SubSeq(s, i + 1, i + Len(sub)) = sub

\* a < b for Python strings
StrLess(a, b) ==
    \E i \in 1..Len(b) :
        /\ \A j \in 1..(i-1) : j <= Len(a) /\ a[j] = b[j]
        /\ \/ i = Len(a) + 1
           \/ i <= Len(a) /\ Ord(a[i]) < Ord(b[i])

\* sorted(list(S)) for a set of strings
RECURSIVE Sorted(_)
Sorted(S) ==
    IF S = {}
    THEN << >>
    ELSE LET m == CHOOSE x \in S : \A y \in S \ {x} : StrLess(x, y)
         IN  <<m>> \o Sorted(S \ {m})


\* ------------------------------------------------------------------- names
sA == <<"A">>
sB == <<"B">>
sC == <<"C">>
\* "B (>=1)"
rBver == <<"B", " ", "(", ">", "=", "1", ")">>
\* "C[x]; x"
rCextra == <<"C", "[", "x", "]", ";", " ", "x">>
\* "(>=1)"
rNoName == <<"(", ">", "=", "1", ")">>

\* a requirement that is no str: the number 1 of a fixture file {"A": [1]}
NotStr == <<"int">>
\* in place of a list: the Source raises an Exception for this name
Raises == <<<<"Exception">>>>

\* the package names of the fixture files
Names == {sA, sB, sC}

\* the members of a list
Members(l) == {l[i] : i \in 1..Len(l)}

\* all sequences over S of length at most n
SeqsUpTo(S, n) == UNION {[1..k -> S] : k \in 0..n}

\* a fixture file after LocalGraphSource._load_graph: name -> list of requirement strings
FixturesOver(keys, raws) == [keys -> SeqsUpTo(raws, MaxDeps)]

\* ------------------------------------------------------------------- state
VARIABLES
    graph,        \* LocalGraphSource.graph
    max_depth,    \* DependencyGraph.max_depth
    name_filter,  \* DependencyGraph.name_filter; << >> is None
    adj,          \* DependencyGraph.adj, a dict in insertion order: <<[key, val], ...>>
    pc,           \* "idle", "while", "for" (inside build_bfs), "returned",
                  \* "raised" (an exception left build_bfs)
    root,         \* build_bfs: root after strip()
    q,            \* build_bfs: the deque
    depth,        \* build_bfs: the depth dict
    seen,         \* build_bfs: the seen set
    current,      \* build_bfs: the node popped last
    deps,         \* build_bfs: the part of deps the for loop has not reached yet
    ret,          \* the tuple build_bfs returned: [adj, depth]
    calls,        \* the names get_direct_dependencies was called with during this build_bfs
    popped,       \* the names popleft() returned during this build_bfs
    found,        \* the edges <<current, name>> line 237 recorded during this build_bfs
    adjlist,      \* main: the dict export_adjlist returned; << >> before
    file,         \* the text save_json wrote last, with the mapping it was written from
    tree,         \* the lines of the last ascii_tree call; << >> before
    call_arg,     \* the argument of a call of one of the module's functions; for a
                  \* Source, the class with the package name: [source, name]
    call_result,  \* what that call returned
    attempts,     \* PyPISource: the requests of the current call, each with its outcome;
                  \* LocalMetadataFilesSource: the files _find_metadata_files returned
    zip_file,     \* VFS.zip_file: the names of the archive, or no archive
    current_path  \* VFS.current_path

vars == <<graph, max_depth, name_filter, adj, pc, root, q, depth, seen, current,
          deps, ret, calls, popped, found, adjlist, file, tree, call_arg, call_result,
          attempts, zip_file, current_path>>

\* the dict of an empty dict literal; the function with the empty domain
EmptyMap == [x \in {} |-> 0]

NoFile == [text |-> << >>, map |-> EmptyMap, written |-> FALSE]

\* VFS.zip_file is None: the VFS was constructed without an archive
NoZip == [open |-> FALSE, names |-> {}]

\* ----------------------------------------------------- dict in insertion order
DictKeys(d) == {d[i].key : i \in 1..Len(d)}

\* d.get(k, set())
DictGet(d, k) ==
    IF k \in DictKeys(d)
    THEN (d[CHOOSE i \in 1..Len(d) : d[i].key = k]).val
    ELSE {}

\* d[k].add(n) on a defaultdict(set): a new key goes last
DictAdd(d, k, n) ==
    IF k \in DictKeys(d)
    THEN [i \in 1..Len(d) |-> IF d[i].key = k
                              THEN [key |-> k, val |-> d[i].val \cup {n}]
                              ELSE d[i]]
    ELSE Append(d, [key |-> k, val |-> {n}])

\* the dict as a mapping, its insertion order forgotten
AsMap(d) == [k \in DictKeys(d) |-> DictGet(d, k)]

\* ------------------------------------------------------------- the builder
\* InitFilter with the bug of keeping the filter in the case it was given in
InitFilterAsGiven(arg) == arg

\* the argument None where the empty string is told from it: --filter is not given
NoFilter == <<"None">>

\* DependencyGraph.__init__: name_filter.lower() if name_filter else None
InitFilter(arg) == IF arg = NoFilter \/ arg = << >> THEN << >> ELSE Lower(arg)

\* passes_filter with the bug of not rejecting the empty name
passes_filter_no_empty_check(name) ==
    IF name_filter # << >> /\ Contains(Lower(name), name_filter)
    THEN FALSE
    ELSE TRUE

\* passes_filter with the bug of comparing the name as it is, without lower()
passes_filter_case_sensitive(name) ==
    IF name = << >>
    THEN FALSE
    ELSE IF name_filter # << >> /\ Contains(name, name_filter)
         THEN FALSE
         ELSE TRUE

\* passes_filter with the bug of leaving out "self.name_filter and" on line 196:
\* the empty filter is a substring of every name
passes_filter_empty_substring(name) ==
    IF name = << >>
    THEN FALSE
    ELSE IF Contains(Lower(name), name_filter)
         THEN FALSE
         ELSE TRUE

passes_filter(name) ==
    IF name = << >>
    THEN FALSE
    ELSE IF name_filter # << >> /\ Contains(Lower(name), name_filter)
         THEN FALSE
         ELSE TRUE

\* LocalGraphSource.get_direct_dependencies
get_direct_dependencies(package_name) ==
    IF package_name \in DOMAIN graph THEN graph[package_name] ELSE << >>

\* the call of the Source on line 225 raises
source_raises(package_name) ==
    package_name \in DOMAIN graph /\ graph[package_name] = Raises

\* lines 224-228: deps is what the Source returns, or [] when the call raised
fetch_deps(package_name) ==
    IF source_raises(package_name)
    THEN << >>
    ELSE get_direct_dependencies(package_name)

\* line 36 raises AttributeError: a requirement that is true and has no split()
sanitize_raises(req) == req = NotStr

\* the state after the constructors, for fixture g, max_depth d and filter argument f
Constructed(g, d, f) ==
    /\ graph = g
    /\ max_depth = d
    /\ name_filter = InitFilter(f)
    /\ adj = << >>
    /\ pc = "idle"
    /\ root = << >>
    /\ q = << >>
    /\ depth = EmptyMap
    /\ seen = {}
    /\ current = << >>
    /\ deps = << >>
    /\ ret = [adj |-> << >>, depth |-> EmptyMap]
    /\ calls = << >>
    /\ popped = << >>
    /\ found = {}
    /\ adjlist = << >>
    /\ tree = << >>
    /\ call_arg = << >>
    /\ call_result = << >>
    /\ attempts = << >>
    /\ current_path = << >>

\* line 212 with the bug of returning self.adj for a root that fails the filter
EarlyReturnSelfAdj == [adj |-> adj, depth |-> EmptyMap]

\* line 212: return {}, {}
EarlyReturn == [adj |-> << >>, depth |-> EmptyMap]

\* build_bfs, lines 206-216: the locals, the root check, the first queue entry
build_bfs_begin(r) ==
    /\ pc \in {"idle", "returned"}
    /\ root' = Strip(r)
    /\ calls' = << >>
    /\ popped' = << >>
    /\ found' = {}
    /\ current' = << >>
    /\ deps' = << >>
    /\ IF ~passes_filter(Strip(r))
       THEN /\ pc' = "returned"
            /\ ret' = EarlyReturn
            /\ q' = << >>
            /\ depth' = EmptyMap
            /\ seen' = {}
       ELSE /\ pc' = "while"
            /\ ret' = [adj |-> << >>, depth |-> EmptyMap]
            /\ q' = <<Strip(r)>>
            /\ depth' = [x \in {Strip(r)} |-> 0]
            /\ seen' = {Strip(r)}
    /\ UNCHANGED <<graph, max_depth, name_filter, adj, adjlist, file, tree,
                   call_arg, call_result, attempts, zip_file, current_path>>

\* at_depth_bound with the bug of expanding the nodes at depth max_depth as well
at_depth_bound_off_by_one(current_depth) == current_depth > max_depth

\* line 221: current_depth >= self.max_depth
at_depth_bound(current_depth) == current_depth >= max_depth

\* build_bfs, lines 218-228: popleft, the depth bound, the Source call
build_bfs_pop ==
    /\ pc = "while"
    /\ q # << >>
    /\ current' = Head(q)
    /\ q' = Tail(q)
    /\ popped' = Append(popped, Head(q))
    /\ IF at_depth_bound(depth[Head(q)])
       THEN /\ pc' = "while"
            /\ deps' = << >>
            /\ calls' = calls
       ELSE /\ deps' = fetch_deps(Head(q))
            /\ calls' = Append(calls, Head(q))
            /\ pc' = IF fetch_deps(Head(q)) = << >> THEN "while" ELSE "for"
    /\ UNCHANGED <<graph, max_depth, name_filter, adj, root, depth, seen, ret, found,
                   adjlist, file, tree,
                   call_arg, call_result, attempts, zip_file, current_path>>

\* depth.setdefault(name, value)
SetDefault(d, name, value) ==
    IF name \in DOMAIN d
    THEN d
    ELSE [x \in DOMAIN d \cup {name} |-> IF x = name THEN value ELSE d[x]]

Min(a, b) == IF a <= b THEN a ELSE b

\* the default of depth.get on line 245
NoDepth == 1000000000

\* record_edge with the bug of recording the edge only for a name not seen before
record_edge_new_only(name) ==
    IF name \in seen
    THEN UNCHANGED <<adj, found>>
    ELSE /\ adj' = DictAdd(adj, current, name)
         /\ found' = found \cup {<<current, name>>}

\* line 237: self.adj[current].add(name)
record_edge(name) ==
    /\ adj' = DictAdd(adj, current, name)
    /\ found' = found \cup {<<current, name>>}

\* lines 239-241: a name seen for the first time
visit_new(name) ==
    /\ seen' = seen \cup {name}
    /\ depth' = [x \in DOMAIN depth \cup {name} |->
                    IF x = name THEN depth[current] + 1 ELSE depth[x]]
    /\ q' = Append(q, name)

\* visit_seen with the bug of assigning depth[name] = current_depth + 1 again
visit_seen_overwrite(name) ==
    /\ depth' = [x \in DOMAIN depth \cup {name} |->
                    IF x = name THEN depth[current] + 1 ELSE depth[x]]
    /\ UNCHANGED <<seen, q>>

\* visit_seen with the bug of putting the name into the queue again
visit_seen_requeue(name) ==
    /\ depth' = SetDefault(depth, name,
                    Min(IF name \in DOMAIN depth THEN depth[name] ELSE NoDepth,
                        depth[current] + 1))
    /\ q' = Append(q, name)
    /\ UNCHANGED seen

\* line 245: a name seen before
visit_seen(name) ==
    /\ depth' = SetDefault(depth, name,
                    Min(IF name \in DOMAIN depth THEN depth[name] ELSE NoDepth,
                        depth[current] + 1))
    /\ UNCHANGED <<seen, q>>

\* build_bfs, lines 230-245: one pass of the for loop, for the requirement raw
build_bfs_dep(raw) ==
    \E name \in {sanitize_requirement(raw)} :
        IF name = << >>
        THEN UNCHANGED <<adj, seen, depth, q, found>>
        ELSE IF ~passes_filter(name)
        THEN UNCHANGED <<adj, seen, depth, q, found>>
        ELSE /\ record_edge(name)
             /\ IF name \notin seen THEN visit_new(name) ELSE visit_seen(name)

\* the for loop, line 230: the next requirement of deps; an exception of
\* sanitize_requirement is caught nowhere and leaves build_bfs
build_bfs_for ==
    /\ pc = "for"
    /\ deps # << >>
    /\ IF sanitize_raises(Head(deps))
       THEN /\ pc' = "raised"
            /\ UNCHANGED <<adj, seen, depth, q, found, deps>>
       ELSE /\ build_bfs_dep(Head(deps))
            /\ deps' = Tail(deps)
            /\ pc' = IF Tail(deps) = << >> THEN "while" ELSE "for"
    /\ UNCHANGED <<graph, max_depth, name_filter, root, current, ret, calls, popped,
                   adjlist, file, tree,
                   call_arg, call_result, attempts, zip_file, current_path>>

\* build_bfs, line 247: return self.adj, depth
build_bfs_return ==
    /\ pc = "while"
    /\ q = << >>
    /\ pc' = "returned"
    /\ ret' = [adj |-> adj, depth |-> depth]
    /\ UNCHANGED <<graph, max_depth, name_filter, adj, root, q, depth, seen, current,
                   deps, calls, popped, found, adjlist, file, tree,
                   call_arg, call_result, attempts, zip_file, current_path>>


\* ------------------------------------------------------------------ export
\* export_adjlist: {k: sorted(list(v)) for k, v in self.adj.items()}
export_adjlist(d) == [i \in 1..Len(d) |-> [key |-> d[i].key, val |-> Sorted(d[i].val)]]

\* json.dump of a list of strings: ["B","C"], each element quoted, in list order
RECURSIVE JsonList(_)
JsonList(l) ==
    IF l = << >>
    THEN << >>
    ELSE <<"\"">> \o Head(l) \o <<"\"">>
         \o (IF Tail(l) = << >> THEN << >> ELSE <<",">>) \o JsonList(Tail(l))

\* json.dump of the members of a dict of lists, in the dict's own order
RECURSIVE JsonMembers(_)
JsonMembers(d) ==
    IF d = << >>
    THEN << >>
    ELSE <<"\"">> \o Head(d).key \o <<"\"", ":", "[">> \o JsonList(Head(d).val) \o <<"]">>
         \o (IF Tail(d) = << >> THEN << >> ELSE <<",">>) \o JsonMembers(Tail(d))

\* json.dump(data, f, ensure_ascii=False, indent=2) without the indentation:
\* sort_keys is not given, so the members come in the dict's insertion order
JsonDump(d) == <<"{">> \o JsonMembers(d) \o <<"}">>

\* the mapping name -> set of names an exported dict stands for
ListMap(d) == [k \in DictKeys(d) |->
                  LET l == (d[CHOOSE i \in 1..Len(d) : d[i].key = k]).val
                  IN  {l[j] : j \in 1..Len(l)}]

\* main, line 321: adjlist = graph.export_adjlist()
main_export ==
    /\ pc = "returned"
    /\ pc' = "exported"
    /\ adjlist' = export_adjlist(adj)
    /\ UNCHANGED <<graph, max_depth, name_filter, adj, root, q, depth, seen, current,
                   deps, ret, calls, popped, found, file, tree,
                   call_arg, call_result, attempts, zip_file, current_path>>

\* main, lines 325-331: save_json(output_path, {..., 'adjacency': adjlist, ...})
main_save ==
    /\ pc = "exported"
    /\ pc' = "saved"
    /\ file' = [text |-> JsonDump(adjlist), map |-> ListMap(adjlist), written |-> TRUE]
    /\ UNCHANGED <<graph, max_depth, name_filter, adj, root, q, depth, seen, current,
                   deps, ret, calls, popped, found, adjlist, tree,
                   call_arg, call_result, attempts, zip_file, current_path>>

\* main, line 319, and run_demo, line 405: the one build_bfs call on a new builder
main_build(r) ==
    /\ pc = "idle"
    /\ build_bfs_begin(r)

\* the next run, lines 309-318, and run_demo's next pass, lines 403-404:
\* a new source and a new builder; the output file stays on disk
main_next_run(g, d, f) ==
    /\ pc = "saved"
    /\ graph' = g
    /\ max_depth' = d
    /\ name_filter' = InitFilter(f)
    /\ adj' = << >>
    /\ pc' = "idle"
    /\ root' = << >>
    /\ q' = << >>
    /\ depth' = EmptyMap
    /\ seen' = {}
    /\ current' = << >>
    /\ deps' = << >>
    /\ ret' = [adj |-> << >>, depth |-> EmptyMap]
    /\ calls' = << >>
    /\ popped' = << >>
    /\ found' = {}
    /\ adjlist' = << >>
    /\ tree' = << >>
    /\ UNCHANGED <<file, call_arg, call_result, attempts, zip_file, current_path>>

\* -------------------------------------------------------------- ascii_tree
\* A line of the tree: the prefix and the node of f"{prefix}{node}"; marker says
\* that it is the line f"{prefix}  (... {node})"; level is the current_depth of
\* the _recurse call that appended the line.
NodeLine(prefix, node, current_depth) ==
    [prefix |-> prefix, node |-> node, marker |-> FALSE, level |-> current_depth]

\* cycle_line with the bug of writing the marker at the prefix of its node
cycle_line_no_indent(prefix, node, current_depth) ==
    [prefix |-> prefix, node |-> node, marker |-> TRUE, level |-> current_depth]

\* line 267: lines.append(f"{prefix}  (... {node})")
cycle_line(prefix, node, current_depth) ==
    [prefix |-> prefix \o <<" ", " ">>, node |-> node, marker |-> TRUE,
     level |-> current_depth]

\* tree_at_depth_bound with the bug of descending from the nodes at max_depth as well
tree_at_depth_bound_off_by_one(current_depth) == current_depth > max_depth

\* line 264: current_depth >= self.max_depth
tree_at_depth_bound(current_depth) == current_depth >= max_depth

\* tree_children with the bug of the reverse order
tree_children_reversed(d, node) ==
    [i \in 1..Len(Sorted(DictGet(d, node))) |->
        Sorted(DictGet(d, node))[Len(Sorted(DictGet(d, node))) + 1 - i]]

\* line 270: sorted(self.adj.get(node, []))
tree_children(d, node) == Sorted(DictGet(d, node))

\* child_path with the bug of a path that holds the node's children as well
child_path_with_children(d, visited_path, node) ==
    visited_path \cup {node} \cup DictGet(d, node)

\* lines 269 and 271: visited_path.add(node), and set(visited_path) for each child
child_path(d, visited_path, node) == visited_path \cup {node}

\* _recurse, lines 262-271, for the adjacency dict d; its value is the lines it appends
RECURSIVE recurse(_, _, _, _, _)
RECURSIVE recurse_children(_, _, _, _, _)
recurse(d, node, prefix, visited_path, current_depth) ==
    IF tree_at_depth_bound(current_depth)
    THEN <<NodeLine(prefix, node, current_depth)>>
    ELSE IF node \in visited_path
    THEN <<NodeLine(prefix, node, current_depth), cycle_line(prefix, node, current_depth)>>
    ELSE <<NodeLine(prefix, node, current_depth)>>
         \o recurse_children(d, tree_children(d, node), prefix \o <<" ", " ">>,
                             child_path(d, visited_path, node), current_depth + 1)

\* the for loop of line 270 over the list children
recurse_children(d, children, prefix, visited_path, current_depth) ==
    IF children = << >>
    THEN << >>
    ELSE recurse(d, Head(children), prefix, visited_path, current_depth)
         \o recurse_children(d, Tail(children), prefix, visited_path, current_depth)

\* ascii_tree, lines 260 and 273, over the adjacency dict d: the list lines
ascii_tree(d, r) == recurse(d, r, << >>, {}, 0)

\* the text of a line; "(cycle X)" stands for the marker's Russian words
LineText(l) ==
    IF l.marker
    THEN l.prefix \o <<"(", "c", "y", "c", "l", "e", " ">> \o l.node \o <<")">>
    ELSE l.prefix \o l.node

\* line 274: "\n".join(lines)
RECURSIVE JoinLines(_)
JoinLines(t) ==
    IF t = << >>
    THEN << >>
    ELSE LineText(Head(t)) \o (IF Tail(t) = << >> THEN << >> ELSE <<"\n">>)
         \o JoinLines(Tail(t))

\* main, line 334, and run_demo, line 414: the ascii_tree call after build_bfs
ascii_tree_call(r) ==
    /\ pc = "returned"
    /\ pc' = "printed"
    /\ tree' = ascii_tree(adj, r)
    /\ UNCHANGED <<graph, max_depth, name_filter, adj, root, q, depth, seen, current,
                   deps, ret, calls, popped, found, adjlist, file,
                   call_arg, call_result, attempts, zip_file, current_path>>

\* ------------------------------------------------------------- the sources
\* What a block of code ends with: a value, or an exception that leaves it.
Ok(v) == [raised |-> FALSE, value |-> v]
Raised == [raised |-> TRUE, value |-> << >>]

\* caught with the bug of no except clause: the exception goes on to the caller
not_caught(r) == r

\* try: ... except Exception: return []
caught(r) == IF r.raised THEN Ok(<< >>) ELSE r

\* requires_dist: null in place of a list
NoneList == <<<<"None">>>>

\* the names of sanitize_requirement for the items of a list, the empty ones left out
RECURSIVE NonEmptyNames(_)
NonEmptyNames(l) ==
    IF l = << >>
    THEN << >>
    ELSE (IF sanitize_requirement(Head(l)) = << >>
          THEN << >>
          ELSE <<sanitize_requirement(Head(l))>>) \o NonEmptyNames(Tail(l))

\* PyPISource._parse_requires_dist, lines 89-97
parse_requires_dist(requires_dist) ==
    IF requires_dist \in {NoneList, << >>}
    THEN Ok(<< >>)
    ELSE IF \E i \in 1..Len(requires_dist) : sanitize_raises(requires_dist[i])
    THEN Raised
    ELSE Ok(NonEmptyNames(requires_dist))

\* re.split(r'[;,]', m): the pieces of m between its semicolons and commas
RECURSIVE SplitPieces(_)
SplitPieces(m) ==
    IF FirstIn(m, {";", ","}) = 0
    THEN <<m>>
    ELSE <<Before(m, {";", ","})>> \o SplitPieces(Drop(m, FirstIn(m, {";", ","}) + 1))

\* lines 118-123 for one pattern: the names of the pieces of every match
RECURSIVE PieceNames(_)
PieceNames(matches) ==
    IF matches = << >>
    THEN << >>
    ELSE NonEmptyNames(SplitPieces(Head(matches))) \o PieceNames(Tail(matches))

\* list(dict.fromkeys(deps)): the first occurrence of each name, in order
RECURSIVE Dedupe(_)
Dedupe(l) ==
    IF l = << >>
    THEN << >>
    ELSE LET rest == Dedupe(SubSeq(l, 1, Len(l) - 1))
         IN  IF l[Len(l)] \in Members(rest) THEN rest ELSE Append(rest, l[Len(l)])

\* lines 116-124: the two patterns differ in the case of one letter only and are
\* both applied with re.IGNORECASE, so each finds the same matches
html_extract(matches) == Dedupe(PieceNames(matches) \o PieceNames(matches))

\* f"https://pypi.org/pypi/{package_name}/json"
ApiUrl(package_name) == <<"https://pypi.org/pypi/">> \o package_name \o <<"/json">>

\* f"https://pypi.org/project/{package_name}/"
PageUrl(package_name) == <<"https://pypi.org/project/">> \o package_name \o <<"/">>

\* lines 105-109: the JSON attempt, for the outcome o of the request
json_attempt(o) == IF o.ok THEN parse_requires_dist(o.requires) ELSE Raised

\* json_final with the bug of going on to the HTML page when the list is empty
json_final_non_empty(r) == ~r.raised /\ r.value # << >>

\* line 109: the return inside the try ends the call
json_final(r) == ~r.raised

\* lines 112-127: the HTML attempt, for the outcome o of the request
html_attempt(o) == caught(IF o.ok THEN Ok(html_extract(o.matches)) ELSE Raised)

\* PyPISource.get_direct_dependencies, lines 99-103
pypi_call(package_name) ==
    /\ pc = "idle"
    /\ pc' = "json"
    /\ call_arg' = [source |-> "PyPISource", name |-> package_name]
    /\ attempts' = << >>
    /\ UNCHANGED <<zip_file, current_path>>
    /\ UNCHANGED <<graph, max_depth, name_filter, adj, root, q, depth, seen, current,
                   deps, ret, calls, popped, found, adjlist, file, tree, call_result>>

\* lines 104-110: the request to the JSON API
pypi_json(o) ==
    /\ pc = "json"
    /\ attempts' = Append(attempts, [url |-> ApiUrl(call_arg.name), outcome |-> o])
    /\ UNCHANGED <<zip_file, current_path>>
    /\ IF json_final(json_attempt(o))
       THEN pc' = "called" /\ call_result' = json_attempt(o)
       ELSE pc' = "html" /\ UNCHANGED call_result
    /\ UNCHANGED <<graph, max_depth, name_filter, adj, root, q, depth, seen, current,
                   deps, ret, calls, popped, found, adjlist, file, tree, call_arg>>

\* lines 111-129: the request for the project page
pypi_html(o) ==
    /\ pc = "html"
    /\ attempts' = Append(attempts, [url |-> PageUrl(call_arg.name), outcome |-> o])
    /\ UNCHANGED <<zip_file, current_path>>
    /\ pc' = "called"
    /\ call_result' = html_attempt(o)
    /\ UNCHANGED <<graph, max_depth, name_filter, adj, root, q, depth, seen, current,
                   deps, ret, calls, popped, found, adjlist, file, tree, call_arg>>

\* A file of the repository: named says that its name ends with ".json" and holds
\* the package name; kind is "unreadable" (open raises), "malformed" (json.load
\* raises), "not_dict" (a JSON list or number), or "dict"; a dict has an "info"
\* dict or none (has_info), the value of its "requires_dist" (NoneList when
\* absent), and the lists it holds under package names (names).
MetaFile(named, kind, has_info, requires, names) ==
    [named |-> named, kind |-> kind, has_info |-> has_info, requires |-> requires,
     names |-> names]

\* [sanitize_requirement(x) for x in requires], line 165
RECURSIVE SanitizedList(_)
SanitizedList(l) ==
    IF l = << >>
    THEN << >>
    ELSE <<sanitize_requirement(Head(l))>> \o SanitizedList(Tail(l))

\* extract_body with the bug of trying the flat shape before the nested one
extract_body_flat_first(f, package_name) ==
    IF f.kind \in {"unreadable", "malformed"}
    THEN Raised
    ELSE IF f.kind # "dict"
    THEN Ok(<< >>)
    ELSE IF package_name \in DOMAIN f.names
    THEN Ok(f.names[package_name])
    ELSE IF f.has_info /\ f.requires \notin {NoneList, << >>}
    THEN IF \E i \in 1..Len(f.requires) : sanitize_raises(f.requires[i])
         THEN Raised
         ELSE Ok(SanitizedList(f.requires))
    ELSE Ok(<< >>)

\* the body of the try of _extract_from_file, lines 158-169
extract_body(f, package_name) ==
    IF f.kind \in {"unreadable", "malformed"}
    THEN Raised
    ELSE IF f.kind # "dict"
    THEN Ok(<< >>)
    ELSE IF f.has_info /\ f.requires \notin {NoneList, << >>}
    THEN IF \E i \in 1..Len(f.requires) : sanitize_raises(f.requires[i])
         THEN Raised
         ELSE Ok(SanitizedList(f.requires))
    ELSE IF package_name \in DOMAIN f.names
    THEN Ok(f.names[package_name])
    ELSE Ok(<< >>)

\* LocalMetadataFilesSource._extract_from_file, lines 155-172
extract_from_file(f, package_name) == caught(extract_body(f, package_name))

\* LocalMetadataFilesSource._find_metadata_files, lines 143-153, for a repository
\* [is_file, files]: a path that is a file, or the files under a directory (none
\* when the path does not exist)
find_metadata_files(repo) ==
    IF repo.is_file
    THEN repo.files
    ELSE SelectSeq(repo.files, LAMBDA f : f.named)

\* the for loop of lines 175-179 over the list files
RECURSIVE first_deps(_, _)
first_deps(files, package_name) ==
    IF files = << >>
    THEN Ok(<< >>)
    ELSE IF extract_from_file(Head(files), package_name).raised
    THEN extract_from_file(Head(files), package_name)
    ELSE IF extract_from_file(Head(files), package_name).value # << >>
    THEN extract_from_file(Head(files), package_name)
    ELSE first_deps(Tail(files), package_name)

\* LocalMetadataFilesSource.get_direct_dependencies, lines 174-179
metadata_get_direct_dependencies(repo, package_name) ==
    first_deps(find_metadata_files(repo), package_name)

\* a call of LocalMetadataFilesSource.get_direct_dependencies
metadata_call(repo, package_name) ==
    /\ pc = "idle"
    /\ pc' = "called"
    /\ call_arg' = [source |-> "LocalMetadataFilesSource", name |-> package_name]
    /\ call_result' = metadata_get_direct_dependencies(repo, package_name)
    /\ attempts' = find_metadata_files(repo)
    /\ UNCHANGED <<zip_file, current_path>>
    /\ UNCHANGED <<graph, max_depth, name_filter, adj, root, q, depth, seen, current,
                   deps, ret, calls, popped, found, adjlist, file, tree>>

\* a call of LocalGraphSource.get_direct_dependencies
fixture_call(package_name) ==
    /\ pc = "idle"
    /\ pc' = "called"
    /\ call_arg' = [source |-> "LocalGraphSource", name |-> package_name]
    /\ call_result' = Ok(get_direct_dependencies(package_name))
    /\ attempts' = << >>
    /\ UNCHANGED <<zip_file, current_path>>
    /\ UNCHANGED <<graph, max_depth, name_filter, adj, root, q, depth, seen, current,
                   deps, ret, calls, popped, found, adjlist, file, tree>>

\* the caller takes the list and goes on
call_done ==
    /\ pc = "called"
    /\ pc' = "idle"
    /\ call_arg' = << >>
    /\ call_result' = << >>
    /\ attempts' = << >>
    /\ UNCHANGED <<zip_file, current_path>>
    /\ UNCHANGED <<graph, max_depth, name_filter, adj, root, q, depth, seen, current,
                   deps, ret, calls, popped, found, adjlist, file, tree>>

\* ---------------------------------------------------------- specifications
\* the filter arguments a builder is constructed with: None or "", and "B"
FilterArgs == {<< >>, sB}

\* the roots build_bfs is called with: "A", " B ", "" and " "
RootArgs == {sA, <<" ", "B", " ">>, << >>, <<" ">>}

\* a list that names no requirement twice
Distinct(l) == \A i, j \in 1..Len(l) : l[i] = l[j] => i = j

\* fixtures whose lists are package names
PlainFixtures == {g \in FixturesOver(Names, Names) : \A n \in Names : Distinct(g[n])}

\* fixtures with requirement strings that need sanitizing, in the entries of A and B
RawFixtures ==
    {g \in FixturesOver(Names, {sB, sC, rBver, rCextra, rNoName}) :
        /\ g[sC] = << >>
        /\ \A i \in 1..Len(g[sB]) : g[sB][i] \in {sC, rNoName}}

\* One DependencyGraph over a fixture source; build_bfs may be called again and again.
Init ==
    /\ \E g \in PlainFixtures \cup RawFixtures, d \in 1..MaxDepthArg, f \in FilterArgs :
          Constructed(g, d, f)
    /\ file = NoFile
    /\ zip_file = NoZip

Next ==
    \/ \E r \in RootArgs : build_bfs_begin(r)
    \/ build_bfs_pop
    \/ build_bfs_for
    \/ build_bfs_return

Spec == Init /\ [][Next]_vars

\* the fixtures of the runs of main: A lists B and C in either order, B and C list A or nothing
MainFixtures ==
    {g \in PlainFixtures :
        /\ Members(g[sA]) \subseteq {sB, sC}
        /\ g[sB] \in {<< >>, <<sA>>}
        /\ g[sC] \in {<< >>, <<sA>>}}

\* Runs of main (or passes of run_demo), one after the other: each constructs a
\* source and a builder, calls build_bfs once, exports and saves.
InitMain ==
    /\ \E g \in MainFixtures, d \in 1..MaxDepthArg, f \in FilterArgs : Constructed(g, d, f)
    /\ file = NoFile
    /\ zip_file = NoZip

NextMain ==
    \/ \E r \in RootArgs : main_build(r)
    \/ build_bfs_pop
    \/ build_bfs_for
    \/ build_bfs_return
    \/ main_export
    \/ main_save
    \/ \E g \in MainFixtures, d \in 1..MaxDepthArg, f \in FilterArgs : main_next_run(g, d, f)

SpecMain == InitMain /\ [][NextMain]_vars

\* One DependencyGraph over a fixture source and one call of build_bfs, as in main.
NextOnce ==
    \/ \E r \in RootArgs : main_build(r)
    \/ build_bfs_pop
    \/ build_bfs_for
    \/ build_bfs_return

SpecOnce == Init /\ [][NextOnce]_vars

\* "b", a name that differs from "B" in case only
sLowB == <<"b">>

\* fixtures over names that differ in case only
CaseFixtures ==
    {g \in FixturesOver({sA, sB, sLowB}, {sA, sB, sLowB}) :
        \A n \in DOMAIN g : Distinct(g[n])}

\* the filter in upper and in lower case
CaseFilterArgs == {<< >>, sA, <<"a">>, sB, sLowB}

\* One build of a new builder over names and filters of either case.
InitCase ==
    /\ \E g \in CaseFixtures, d \in 1..MaxDepthArg, f \in CaseFilterArgs :
          Constructed(g, d, f)
    /\ file = NoFile
    /\ zip_file = NoZip

SpecCase == InitCase /\ [][NextOnce]_vars

\* largest max_depth of a builder whose tree is printed
MaxTreeDepth == 4

sD == <<"D">>

\* fixtures in which the siblings B and C of A may both depend on D, as B and C
\* of run_demo's acyclic.json and complex.json do on their dependencies
DiamondFixtures ==
    {g \in FixturesOver({sA, sB, sC, sD}, {sA, sB, sC, sD}) :
        /\ g[sA] \in {<<sB, sC>>, <<sC, sB>>}
        /\ g[sB] \in {<< >>, <<sD>>, <<sD, sA>>}
        /\ g[sC] \in {<< >>, <<sD>>, <<sB, sD>>}
        /\ g[sD] \in {<< >>, <<sA>>, <<sB>>, <<sC, sA>>}}

\* One build of a new builder without a filter, and then its tree from any node.
InitTree ==
    /\ \E g \in PlainFixtures \cup DiamondFixtures, d \in 1..MaxTreeDepth :
          Constructed(g, d, << >>)
    /\ file = NoFile
    /\ zip_file = NoZip

NextTree ==
    \/ \E r \in {sA, sB} : main_build(r)
    \/ build_bfs_pop
    \/ build_bfs_for
    \/ build_bfs_return
    \/ \E r \in Names : ascii_tree_call(r)

SpecTree == InitTree /\ [][NextTree]_vars

\* longest requirement string sanitize_requirement is called with
MaxReqLen == 4

\* the characters of the requirement strings: letters, blank, line break, and the
\* characters sanitize_requirement looks for
ReqChars == {"a", "b", " ", "\n", ";", "[", "]", "(", "<", ">", "=", "!"}

Requirements == SeqsUpTo(ReqChars, MaxReqLen)

\* a call of sanitize_requirement(req)
sanitize_call(req) ==
    /\ pc = "idle"
    /\ pc' = "called"
    /\ call_arg' = req
    /\ call_result' = sanitize_requirement(req)
    /\ UNCHANGED <<graph, max_depth, name_filter, adj, root, q, depth, seen, current,
                   deps, ret, calls, popped, found, adjlist, file, tree,
                   attempts, zip_file, current_path>>

\* sanitize_requirement alone, called with any string
InitSanitize ==
    /\ Constructed(EmptyMap, 1, << >>)
    /\ file = NoFile
    /\ zip_file = NoZip

NextSanitize == \E req \in Requirements : sanitize_call(req)

SpecSanitize == InitSanitize /\ [][NextSanitize]_vars

\* build_bfs, line 231: sanitize_requirement called with a name a Source has
\* sanitized before (lines 97 and 164)
sanitize_again ==
    /\ pc = "called"
    /\ pc' = "sanitized"
    /\ call_result' = sanitize_requirement(call_result)
    /\ UNCHANGED <<graph, max_depth, name_filter, adj, root, q, depth, seen, current,
                   deps, ret, calls, popped, found, adjlist, file, tree,
                   call_arg, attempts, zip_file, current_path>>

NextTwice ==
    \/ \E req \in Requirements : sanitize_call(req)
    \/ sanitize_again

\* sanitize_requirement called with any string, and then with its own result
SpecTwice == InitSanitize /\ [][NextTwice]_vars

\* the values of "requires_dist": null, lists of requirement strings, a list with a number
RequiresValues == {NoneList, << >>, <<rBver>>, <<rBver, sC>>, <<rNoName>>, <<sB, NotStr>>}

\* how the request to the JSON API ends: an error (network, timeout, no JSON, no
\* dict), or a document with some "requires_dist"
JsonOutcomes ==
    {[ok |-> FALSE, requires |-> << >>]} \cup {[ok |-> TRUE, requires |-> r] : r \in RequiresValues}

\* the texts after "Requires:</span>" on a page: none, "B, C", "B (>=1); C,B", ","
HtmlMatches ==
    {<< >>,
     <<<<"B", ",", " ", "C">>>>,
     <<<<"B", " ", "(", ">", "=", "1", ")", ";", " ", "C", ",", "B">>>>,
     <<<<",">>>>}

\* how the request for the project page ends
HtmlOutcomes ==
    {[ok |-> FALSE, matches |-> << >>]} \cup {[ok |-> TRUE, matches |-> m] : m \in HtmlMatches}

\* the files of a local repository
MetaFiles ==
    {MetaFile(n, k, FALSE, NoneList, EmptyMap) :
        n \in BOOLEAN, k \in {"unreadable", "malformed", "not_dict"}}
    \cup {MetaFile(n, "dict", i, r, m) :
            n \in BOOLEAN, i \in BOOLEAN, r \in {NoneList, <<rBver>>, <<rNoName>>, <<NotStr>>},
            m \in {EmptyMap, [x \in {sA} |-> <<sB>>]}}

\* longest list of files of a repository
MaxFiles == 2

\* a path that does not exist or a directory, and a path that is a file
Repos ==
    {[is_file |-> FALSE, files |-> fs] : fs \in SeqsUpTo(MetaFiles, MaxFiles)}
    \cup {[is_file |-> TRUE, files |-> <<f>>] : f \in MetaFiles}

\* the names the Sources are asked for; "D" is in no fixture
AskedNames == {sA, sD}

\* The three Sources, each called on its own.
InitSources ==
    /\ \E g \in MainFixtures : Constructed(g, 1, << >>)
    /\ file = NoFile
    /\ zip_file = NoZip

NextSources ==
    \/ \E n \in AskedNames : fixture_call(n)
    \/ \E n \in AskedNames : pypi_call(n)
    \/ \E o \in JsonOutcomes : pypi_json(o)
    \/ \E o \in HtmlOutcomes : pypi_html(o)
    \/ \E repo \in Repos, n \in AskedNames : metadata_call(repo, n)
    \/ call_done

SpecSources == InitSources /\ [][NextSources]_vars

\* what a Source may do for a name: return a list of names and of values that are
\* no str, or raise
SourceFixtures ==
    {g \in [Names -> SeqsUpTo(Names \cup {NotStr}, MaxDeps) \cup {Raises}] :
        /\ \A n \in Names : Distinct(g[n])
        /\ g[sA] = Raises \/ Members(g[sA]) \subseteq {sB, sC}
        /\ g[sC] = Raises \/ Len(g[sC]) <= 1}

\* One DependencyGraph over any Source, without a filter.
InitSource ==
    /\ \E g \in SourceFixtures, d \in 1..MaxDepthArg : Constructed(g, d, << >>)
    /\ file = NoFile
    /\ zip_file = NoZip

SpecSource == InitSource /\ [][Next]_vars

\* a step of the while loop of build_bfs, or its return
build_bfs_step == build_bfs_pop \/ build_bfs_for \/ build_bfs_return

\* build_bfs is synchronous, single-threaded code: once called, it runs on
SpecFair == Spec /\ WF_vars(build_bfs_step)

\* ------------------------------------------------- main: the configuration
\* the value of a decimal digit
DigitValue(c) ==
    CASE c = "0" -> 0 [] c = "1" -> 1 [] c = "2" -> 2 [] c = "3" -> 3 [] c = "4" -> 4
      [] c = "5" -> 5 [] c = "6" -> 6 [] c = "7" -> 7 [] c = "8" -> 8 [] c = "9" -> 9

DigitChars == {"0", "1", "2", "3", "4", "5", "6", "7", "8", "9"}

\* the number a string of digits stands for
RECURSIVE Digits(_)
Digits(str) ==
    IF str = << >> THEN 0
    ELSE 10 * Digits(SubSeq(str, 1, Len(str) - 1)) + DigitValue(str[Len(str)])

\* the string without a leading sign
Unsigned(value) ==
    IF value # << >> /\ Head(value) \in {"-", "+"} THEN Tail(value) ELSE value

\* int(value) of line 19 raises ValueError: value is no decimal literal
int_raises(value) ==
    Unsigned(value) = << >> \/ \E i \in 1..Len(Unsigned(value)) : Unsigned(value)[i] \notin DigitChars

\* int(value) of line 19
int(value) ==
    IF Head(value) = "-" THEN 0 - Digits(Unsigned(value)) ELSE Digits(Unsigned(value))

\* positive_int_raises with the bug of leaving out the check of lines 20-21
positive_int_raises_unchecked(value) == int_raises(value)

\* positive_int raises: the ValueError of int(), or the ArgumentTypeError of line 21
positive_int_raises(value) ==
    IF int_raises(value) THEN TRUE ELSE int(value) <= 0

\* positive_int returns ivalue
positive_int(value) == int(value)

\* the default of --max-depth, line 290
DefaultMaxDepth == 3

\* a value of a fixture file that is a JSON list
FileList(l) == [is_list |-> TRUE, items |-> l, value |-> << >>]

\* a value of a fixture file that is no list: a single name, or a number
FileSingle(v) == [is_list |-> FALSE, items |-> << >>, value |-> v]

\* what --repo names: nothing (kind "none": the option is not given), a path that
\* does not exist, a file that is no JSON, a JSON value that is no object, an object
RepoArg(kind, content) == [kind |-> kind, content |-> content]

\* load_graph_raises with the bug of checking the path only, not the JSON value
load_graph_raises_missing_only(repo) == repo.kind = "missing"

\* _load_graph raises: FileNotFoundError (line 70), json.load's error (line 72),
\* ValueError (line 74)
load_graph_raises(repo) == repo.kind \in {"missing", "malformed", "not_dict"}

\* _load_graph, line 76: every value that is no list becomes a list of one
load_graph(repo) ==
    [k \in DOMAIN repo.content |->
        IF repo.content[k].is_list THEN repo.content[k].items ELSE <<repo.content[k].value>>]

\* the command line: each option as given, << >> for an option that is not given
Argv(package_name, repo, depth_arg, filter_arg) ==
    [package_name |-> package_name, repo |-> repo, max_depth |-> depth_arg,
     filter |-> filter_arg]

\* main, line 293: parser.parse_args(); argparse exits when positive_int raises
main_parse_args ==
    /\ pc = "argv"
    /\ IF call_arg.max_depth # << >> /\ positive_int_raises(call_arg.max_depth)
       THEN /\ pc' = "exit"
            /\ UNCHANGED call_result
       ELSE /\ pc' = "parsed"
            /\ call_result' =
                 [package_name |-> call_arg.package_name,
                  repo |-> call_arg.repo,
                  max_depth |-> IF call_arg.max_depth = << >>
                                THEN DefaultMaxDepth
                                ELSE positive_int(call_arg.max_depth),
                  filter |-> call_arg.filter]
    /\ UNCHANGED <<graph, max_depth, name_filter, adj, root, q, depth, seen, current,
                   deps, ret, calls, popped, found, adjlist, file, tree,
                   call_arg, attempts, zip_file, current_path>>

\* main, lines 299-309, in the mode "test": the checks of the options, then
\* source = LocalGraphSource(args.repo)
main_source ==
    /\ pc = "parsed"
    /\ IF call_result.package_name = << >> \/ call_result.repo.kind = "none"
       THEN /\ pc' = "exit"
            /\ UNCHANGED graph
       ELSE IF load_graph_raises(call_result.repo)
       THEN /\ pc' = "failed"
            /\ UNCHANGED graph
       ELSE /\ pc' = "source"
            /\ graph' = load_graph(call_result.repo)
    /\ UNCHANGED <<max_depth, name_filter, adj, root, q, depth, seen, current,
                   deps, ret, calls, popped, found, adjlist, file, tree,
                   call_arg, call_result, attempts, zip_file, current_path>>

\* main, line 318: graph = DependencyGraph(source, max_depth=..., name_filter=...)
main_builder ==
    /\ pc = "source"
    /\ pc' = "idle"
    /\ max_depth' = call_result.max_depth
    /\ name_filter' = InitFilter(call_result.filter)
    /\ adj' = << >>
    /\ UNCHANGED <<graph, root, q, depth, seen, current,
                   deps, ret, calls, popped, found, adjlist, file, tree,
                   call_arg, call_result, attempts, zip_file, current_path>>

\* main, line 319: graph.build_bfs(args.package_name)
main_build_args ==
    /\ pc = "idle"
    /\ build_bfs_begin(call_result.package_name)

\* --filter: not given, given as the empty string, given as "B"
FilterOptions == {NoFilter, << >>, sB}

\* the depth bounds of the command line: not given, and strings
DepthArgs == {<< >>, <<"-", "1">>, <<"0">>, <<"1">>, <<"2">>, <<"x">>}

\* the contents of the fixture files that hold a JSON object
FixtureContents ==
    [{sA, sB} -> {FileList(l) : l \in {<< >>, <<sB>>, <<sA>>, <<sB, sA>>}}
                 \cup {FileSingle(n) : n \in {sA, sB, NotStr}}]

RepoArgs ==
    {RepoArg(k, EmptyMap) : k \in {"none", "missing", "malformed", "not_dict"}}
    \cup {RepoArg("dict", c) : c \in FixtureContents}

PackageArgs == {<< >>, sA, <<" ", "B", " ">>}

\* One run of main in the mode "test", from the command line on; there is no source
\* and no DependencyGraph yet, so their fields are unset.
InitConfig ==
    /\ pc = "argv"
    /\ call_arg \in {Argv(n, r, d, f) :
                       n \in PackageArgs, r \in RepoArgs, d \in DepthArgs, f \in FilterOptions}
    /\ call_result = << >>
    /\ graph = EmptyMap
    /\ max_depth = 0
    /\ name_filter = << >>
    /\ adj = << >>
    /\ root = << >>
    /\ q = << >>
    /\ depth = EmptyMap
    /\ seen = {}
    /\ current = << >>
    /\ deps = << >>
    /\ ret = [adj |-> << >>, depth |-> EmptyMap]
    /\ calls = << >>
    /\ popped = << >>
    /\ found = {}
    /\ adjlist = << >>
    /\ tree = << >>
    /\ attempts = << >>
    /\ current_path = << >>
    /\ file = NoFile
    /\ zip_file = NoZip

NextConfig ==
    \/ main_parse_args
    \/ main_source
    \/ main_builder
    \/ main_build_args
    \/ build_bfs_pop
    \/ build_bfs_for
    \/ build_bfs_return
    \/ main_export
    \/ main_save

SpecConfig == InitConfig /\ [][NextConfig]_vars


\* ------------------------------------------- two sources, one set of lists
\* the lists with the members of l in any order
Orders(l) == {[i \in 1..Len(l) |-> l[p[i]]] : p \in Permutations(1..Len(l))}

\* the fixtures that list for every name what g lists, in any order
Reorderings(g) ==
    {g2 \in [DOMAIN g -> UNION {Orders(g[n]) : n \in DOMAIN g}] :
        \A n \in DOMAIN g : g2[n] \in Orders(g[n])}

\* the first build has returned: a second source with the same lists in another
\* order, and a new builder over it with the same max_depth and filter (lines
\* 403-404); call_arg keeps the root and the first source, call_result the first result
reordered_source ==
    /\ pc = "returned"
    /\ call_arg = << >>
    /\ \E g2 \in Reorderings(graph) : graph' = g2
    /\ call_arg' = <<root, graph>>
    /\ call_result' = [adj |-> AsMap(ret.adj), depth |-> ret.depth]
    /\ adj' = << >>
    /\ pc' = "idle"
    /\ UNCHANGED <<max_depth, name_filter, root, q, depth, seen, current,
                   deps, ret, calls, popped, found, adjlist, file, tree, attempts, zip_file, current_path>>

\* build_bfs of the second builder, for the root of the first
main_build_again ==
    /\ pc = "idle"
    /\ call_arg # << >>
    /\ build_bfs_begin(call_arg[1])

\* the first build, of the builder Init constructs
main_build_first(r) ==
    /\ call_arg = << >>
    /\ main_build(r)

NextReorder ==
    \/ \E r \in RootArgs : main_build_first(r)
    \/ build_bfs_pop
    \/ build_bfs_for
    \/ build_bfs_return
    \/ reordered_source
    \/ main_build_again

\* Two builders with the same max_depth and filter, over two sources that list the
\* same names in their own orders, and one build_bfs of each for the same root.
SpecReorder == Init /\ [][NextReorder]_vars

\* ------------------------------------------------- PR1/emu.py: the VFS
\* s.startswith(prefix)
StartsWith(s, prefix) == Len(prefix) <= Len(s) /\ SubSeq(s, 1, Len(prefix)) = prefix

\* s.endswith('/')
EndsWithSlash(s) == s # << >> /\ s[Len(s)] = "/"

\* list_files, lines 51-53: the path with a '/' at its end, the empty path as it is
TargetPath(path) ==
    IF path # << >> /\ ~EndsWithSlash(path) THEN path \o <<"/">> ELSE path

\* lines 63 and 70: len(parts) > 1 or name.endswith('/'), for parts = text.split('/')
IsFolderEntry(text, name) == "/" \in Members(text) \/ EndsWithSlash(name)

\* list_files, lines 58-75: the folders of the listing of target_path
Folders(names, target_path) ==
    IF target_path # << >>
    THEN {Before(Drop(n, Len(target_path) + 1), {"/"}) :
            n \in {x \in names : /\ StartsWith(x, target_path)
                                 /\ Drop(x, Len(target_path) + 1) # << >>
                                 /\ IsFolderEntry(Drop(x, Len(target_path) + 1), x)}}
    ELSE {Before(n, {"/"}) : n \in {x \in names : IsFolderEntry(x, x)}}

\* list_files, lines 58-75: the files of the listing of target_path
Files(names, target_path) ==
    IF target_path # << >>
    THEN {Drop(n, Len(target_path) + 1) :
            n \in {x \in names : /\ StartsWith(x, target_path)
                                 /\ Drop(x, Len(target_path) + 1) # << >>
                                 /\ ~IsFolderEntry(Drop(x, Len(target_path) + 1), x)}}
    ELSE {n \in names : ~IsFolderEntry(n, n) /\ Before(n, {"/"}) # << >>}

\* VFS.list_files() without an argument, for an archive that is open
list_files(names, path) ==
    [folders |-> Sorted(Folders(names, TargetPath(path))),
     files   |-> Sorted(Files(names, TargetPath(path)))]

\* os.path.join(a, b) for a relative b, on a system whose separator is '/'
join(a, b) ==
    IF a = << >> THEN b ELSE IF EndsWithSlash(a) THEN a \o b ELSE a \o <<"/">> \o b

\* s.replace('\\', '/')
ReplaceBackslash(s) == [i \in 1..Len(s) |-> IF s[i] = "\\" THEN "/" ELSE s[i]]

\* change_directory, lines 108-116: the path that is tried
TriedPath(path, new_path) ==
    IF StartsWith(new_path, <<"/">>)
    THEN Drop(new_path, 2)
    ELSE IF path = << >>
    THEN new_path
    ELSE ReplaceBackslash(join(path, new_path))

\* lines 119-120: one '/' at the end is cut
WithoutEndSlash(path) ==
    IF EndsWithSlash(path) THEN SubSeq(path, 1, Len(path) - 1) ELSE path

\* line 124: not folders and not files and self.current_path
path_missing(names, path) ==
    /\ list_files(names, path).folders = << >>
    /\ list_files(names, path).files = << >>
    /\ path # << >>

\* restored_path with the bug of leaving out line 125
restored_path_kept(old_path, path) == path

\* line 125: self.current_path = old_path
restored_path(old_path, path) == old_path

\* the values change_directory returns
RetTrue == <<"True">>
RetFalse == <<"False">>

\* VFS.change_directory(new_path): what it returns and the current_path it leaves
change_directory_outcome(zip, old_path, new_path) ==
    IF ~zip.open
    THEN [ret |-> RetFalse, path |-> old_path]
    ELSE IF new_path = <<"/">>
    THEN [ret |-> RetTrue, path |-> << >>]
    ELSE LET tried == {WithoutEndSlash(TriedPath(old_path, new_path))}
         IN  CHOOSE r \in {IF path_missing(zip.names, path)
                            THEN [ret |-> RetFalse, path |-> restored_path(old_path, path)]
                            ELSE [ret |-> RetTrue, path |-> path] : path \in tried} : TRUE

\* a call of VFS.change_directory(new_path)
change_directory(new_path) ==
    /\ pc = "idle"
    /\ call_arg' = new_path
    /\ call_result' = change_directory_outcome(zip_file, current_path, new_path).ret
    /\ current_path' = change_directory_outcome(zip_file, current_path, new_path).path
    /\ UNCHANGED <<graph, max_depth, name_filter, adj, pc, root, q, depth, seen, current,
                   deps, ret, calls, popped, found, adjlist, file, tree, attempts,
                   zip_file>>

\* longest argument of change_directory
MaxPathLen == 3

\* the characters of the arguments
PathChars == {"a", "b", "/", "\\"}

PathArgs == SeqsUpTo(PathChars, MaxPathLen)

\* the names an archive may hold: "a/", "a/b", "a/b/a", "b", "ab/a", "a//b"
ArchiveNames ==
    {<<"a", "/">>, <<"a", "/", "b">>, <<"a", "/", "b", "/", "a">>, <<"b">>,
     <<"a", "b", "/", "a">>, <<"a", "/", "/", "b">>}

\* a VFS without an archive, and one with any archive of these names
Archives == {NoZip} \cup {[open |-> TRUE, names |-> ns] : ns \in SUBSET ArchiveNames}

\* A VFS after its constructor, and any sequence of change_directory calls.
InitVFS ==
    /\ Constructed(EmptyMap, 1, << >>)
    /\ file = NoFile
    /\ zip_file \in Archives

NextVFS == \E new_path \in PathArgs : change_directory(new_path)

SpecVFS == InitVFS /\ [][NextVFS]_vars

\* ------------------------------------------------- the fixture as a graph
\* the requirement strings of u's entry
Succ(u) == IF u \in DOMAIN graph THEN Members(graph[u]) ELSE {}

\* the nodes u has an edge to: the package names its requirement strings stand for
Targets(u) == {sanitize_requirement(x) : x \in Succ(u)} \ {<< >>}

\* the nodes some path of at most k edges leads to from r
RECURSIVE Within(_, _)
Within(r, k) ==
    IF k = 0
    THEN {r}
    ELSE Within(r, k - 1) \cup UNION {Targets(u) : u \in Within(r, k - 1)}

Reachable(r) == Within(r, Cardinality(Names))

\* the length of the shortest path from r to n, for n in Reachable(r)
Dist(r, n) ==
    CHOOSE k \in 0..Cardinality(Names) :
        n \in Within(r, k) /\ (k = 0 \/ n \notin Within(r, k - 1))

Acyclic == \A u \in Names : \A v \in Targets(u) : u \notin Reachable(v)

\* the longest of the shortest paths
Diameter ==
    LET pairs == {Dist(p[1], p[2]) : p \in {x \in Names \X Names : x[2] \in Reachable(x[1])}}
    IN  CHOOSE d \in pairs : \A e \in pairs : e <= d

\* the name is excluded by the builder's filter
Excluded(n) == name_filter # << >> /\ Contains(Lower(n), name_filter)

\* the simple cycles through r: r = c[1] -> c[2] -> ... -> c[Len(c)] -> r
CyclesThrough(r) ==
    {c \in SeqsUpTo(Names, Cardinality(Names)) :
        /\ Len(c) >= 1
        /\ c[1] = r
        /\ Distinct(c)
        /\ \A i \in 1..(Len(c) - 1) : c[i + 1] \in Targets(c[i])
        /\ r \in Targets(c[Len(c)])}

\* build_bfs is between its first line and its return
Running == pc \in {"while", "for"}

\* ------------------------------------------------------------------ claims
\* C1: for an acyclic fixture graph, no filter and max_depth at least the graph's
\* diameter, the depth map build_bfs returns has exactly the nodes reachable from
\* the root as keys and maps each to its shortest-path distance from the root.
C1_ShortestDepths ==
    (/\ pc = "returned"
     /\ root # << >>
     /\ name_filter = << >>
     /\ Acyclic
     /\ max_depth >= Diameter)
    => /\ DOMAIN ret.depth = Reachable(root)
       /\ \A n \in Reachable(root) : ret.depth[n] = Dist(root, n)

\* C1's case: such a build has returned, it expanded a node u at depth 1 with an
\* edge to a node that a shorter path had reached before
C1_Witness ==
    /\ pc = "returned"
    /\ root # << >>
    /\ name_filter = << >>
    /\ Acyclic
    /\ max_depth >= Diameter
    /\ \E u \in Members(calls) : \E n \in Targets(u) :
          ret.depth[u] = 1 /\ ret.depth[n] = 1


\* C2 as claimed (here without a filter): for a graph with a cycle through the root,
\* the adjacency map build_bfs returns has an edge of some node back to the root.
C2_Original ==
    (/\ pc = "returned"
     /\ root # << >>
     /\ name_filter = << >>
     /\ CyclesThrough(root) # {})
    => \E c \in CyclesThrough(root) : root \in DictGet(ret.adj, c[Len(c)])

\* the closing edge of every cycle through the root that has at most max_depth
\* edges and no excluded name is in the adjacency map build_bfs returns
C2_CycleEdges ==
    (pc = "returned" /\ root # << >> /\ ~Excluded(root))
    => \A c \in CyclesThrough(root) :
          (Len(c) <= max_depth /\ \A i \in 1..Len(c) : ~Excluded(c[i]))
          => root \in DictGet(ret.adj, c[Len(c)])

\* the root has depth 0 throughout the traversal and in the map returned
C2_RootDepth ==
    /\ Running => (root \in DOMAIN depth /\ depth[root] = 0)
    /\ (pc = "returned" /\ root # << >> /\ ~Excluded(root))
       => (root \in DOMAIN ret.depth /\ ret.depth[root] = 0)

\* a step of the traversal changes no depth that is assigned
C2_DepthKept ==
    Running => \A n \in DOMAIN depth : n \in DOMAIN depth' /\ depth'[n] = depth[n]

\* C2 (amended): the closing edge of a cycle through the root of at most max_depth
\* edges, none of whose names is excluded, is in the returned adjacency map; the
\* root has depth 0 in every state of the traversal; no step changes an assigned depth.
C2_CycleEdgeAndDepths ==
    /\ [](C2_CycleEdges /\ C2_RootDepth)
    /\ [][C2_DepthKept]_vars

\* C2's case: a build over the cycle root -> x -> y -> root has returned with the
\* closing edge y -> root recorded
C2_Witness ==
    /\ pc = "returned"
    /\ \E c \in CyclesThrough(root) :
          /\ Len(c) = 3
          /\ root \in DictGet(ret.adj, c[3])
          /\ ret.depth[c[3]] = 2
          /\ <<c[3], root>> \in found


\* the names the Source can produce, and the root
ProducedNames == {root} \cup UNION {Targets(u) : u \in DOMAIN graph}

\* the length of the longest list of the fixture
LongestList ==
    LET ls == {Len(graph[u]) : u \in DOMAIN graph} \cup {0}
    IN  CHOOSE l \in ls : \A k \in ls : k <= l

\* what is left to do: the names not yet admitted to the queue and the names in
\* the queue, each worth more than a whole list, and the rest of the current list
Rank ==
    (Cardinality(ProducedNames \ seen) + Len(q)) * (LongestList + 1) + Len(deps)

\* every step inside build_bfs leaves less to do, and there is always a next step
C3_RankDecreases ==
    Running => /\ seen \subseteq ProducedNames
               /\ ENABLED build_bfs_step
               /\ Running' => Rank' < Rank

\* C3: build_bfs terminates for every source with finitely many names, among them
\* graphs with cycles and self-loops and a source with the same list for every name:
\* once called it returns, because every step of it leaves less to do.
C3_Terminates ==
    /\ Running ~> (pc = "returned")
    /\ [][C3_RankDecreases]_vars

\* C3's case: a build has returned over a source that returns the same non-empty
\* list, with the root in it, for every name
C3_Witness ==
    /\ pc = "returned"
    /\ graph[sA] # << >>
    /\ \A u \in Names : graph[u] = graph[sA]
    /\ root \in Targets(root)
    /\ Len(graph[sA]) = MaxDeps
    /\ Len(calls) >= 2


\* every name of a dict build_bfs returned: its keys and the members of its sets
DictNames(d) == DictKeys(d) \cup UNION {DictGet(d, k) : k \in DictKeys(d)}

\* the names of u's entry, in list order, that are no empty name and not excluded
Siblings(u) == {n \in Targets(u) : ~Excluded(n)}

\* C4: with a filter set, after build_bfs returns no excluded name is a key of the
\* adjacency map, a key of the depth map or a member of a neighbour set, and for
\* every node whose dependencies were fetched, the other names of its list, before
\* and after an excluded one, are its neighbour set and are keys of the depth map.
C4_FilterExclusion ==
    (pc = "returned" /\ name_filter # << >>)
    => /\ \A n \in DictNames(ret.adj) \cup DOMAIN ret.depth : ~Excluded(n)
       /\ \A u \in Members(calls) :
             /\ DictGet(ret.adj, u) = Siblings(u)
             /\ Siblings(u) \subseteq DOMAIN ret.depth
             /\ (Siblings(u) # {}) <=> (u \in DictKeys(ret.adj))

\* the list of u has an excluded name at position i and another name, not
\* excluded, at position j
ExcludedBeside(u, i, j) ==
    /\ Len(graph[u]) >= 2
    /\ Excluded(sanitize_requirement(graph[u][i]))
    /\ sanitize_requirement(graph[u][j]) \in Siblings(u)

\* C4's case: a build with a filter has returned after fetching one list with an
\* excluded name before a sibling and one with an excluded name after a sibling
C4_Witness ==
    /\ pc = "returned"
    /\ name_filter # << >>
    /\ \E u \in Members(calls) : ExcludedBeside(u, 1, 2)
    /\ \E u \in Members(calls) : ExcludedBeside(u, 2, 1)


\* C5 as claimed: with max_depth = d, after build_bfs returns every key of the depth
\* map has depth at most d, every name of the depth map and of the adjacency map has
\* a path of at most d edges from the root, and a node at depth d is no key of the
\* adjacency map.
C5_Original ==
    (pc = "returned" /\ root # << >> /\ ~Excluded(root))
    => /\ \A n \in DOMAIN ret.depth : ret.depth[n] <= max_depth
       /\ DOMAIN ret.depth \cup DictNames(ret.adj) \subseteq Within(root, max_depth)
       /\ \A n \in DOMAIN ret.depth :
             ret.depth[n] = max_depth => n \notin DictKeys(ret.adj)

\* the edges of a dict of sets
Edges(d) == {<<k, n>> : k \in DictKeys(d), n \in DictNames(d)} \cap
            {e \in DictKeys(d) \X DictNames(d) : e[2] \in DictGet(d, e[1])}

\* the edges of a dict of lists
ListEdges(d) ==
    {e \in DictKeys(d) \X UNION {ListMap(d)[k] : k \in DictKeys(d)} :
        e[2] \in ListMap(d)[e[1]]}

\* C6 as claimed: an export of the same adjacency map (the same mapping from names
\* to neighbour sets) as the one the output file was written from serializes to
\* the text of that file.
C6_Original ==
    (pc = "exported" /\ file.written /\ ListMap(adjlist) = file.map)
    => JsonDump(adjlist) = file.text

\* C7 as claimed: after build_bfs returns, every key of the adjacency map and every
\* member of its neighbour sets is a key of the depth map of the same call.
C7_Original ==
    pc = "returned" => DictNames(ret.adj) \subseteq DOMAIN ret.depth

\* C8 as claimed: the adjacency map build_bfs returns, and what export_adjlist
\* returns after it, has exactly the edges recorded during that call.
C8_Original ==
    pc = "returned"
    => /\ Edges(ret.adj) = found
       /\ ListEdges(export_adjlist(adj)) = found


\* C9: no name of the adjacency map (key or neighbour) and no key of the depth map
\* is the empty string, in every state and in what build_bfs returns, whatever the
\* root and whatever the requirement strings sanitize to.
C9_NoEmptyName ==
    << >> \notin DictNames(adj) \cup DictNames(ret.adj) \cup DOMAIN depth
                 \cup DOMAIN ret.depth

\* C9's case: build_bfs has returned for an empty or all-whitespace root, on a
\* builder that before fetched a list with a requirement that sanitizes to ""
C9_Witness ==
    /\ pc = "returned"
    /\ root = << >>
    /\ \E u \in DictKeys(adj) : \E x \in Succ(u) : sanitize_requirement(x) = << >>

\* C10: when the stripped root is empty or contains the filter substring, build_bfs
\* returns two empty maps (the root in neither) without a pop and without a call
\* of the Source.
C10_ExcludedRoot ==
    (pc = "returned" /\ (root = << >> \/ Excluded(root)))
    => /\ ret.adj = << >>
       /\ ret.depth = EmptyMap
       /\ calls = << >>
       /\ popped = << >>
       /\ found = {}

\* C10's case: build_bfs has returned for a root the filter excludes, on a builder
\* whose adjacency map an earlier call had filled
C10_Witness ==
    /\ pc = "returned"
    /\ root # << >>
    /\ Excluded(root)
    /\ adj # << >>


\* the nodes with an edge recorded during this build_bfs
FoundFrom == {e[1] : e \in found}

\* C11 as claimed: no exception leaves build_bfs, whatever the Source raises or
\* returns, and a node for which the Source raised is in the depth map build_bfs
\* returns and has no outgoing edge.
C11_Original ==
    /\ pc # "raised"
    /\ pc = "returned"
       => \A u \in Members(calls) :
             source_raises(u) => (u \in DOMAIN ret.depth /\ u \notin FoundFrom)


\* C12: after the one build of a new builder, every node of the depth map with
\* depth < max_depth has as neighbour set exactly the sanitized, non-empty,
\* non-filtered names of its list, and the keys of the adjacency map are exactly
\* the nodes of depth < max_depth for which that set is not empty.
C12_ExactAdjacency ==
    pc = "returned"
    => /\ DictKeys(ret.adj) \subseteq DOMAIN ret.depth
       /\ \A u \in DOMAIN ret.depth :
             /\ ret.depth[u] < max_depth => DictGet(ret.adj, u) = Siblings(u)
             /\ u \in DictKeys(ret.adj)
                <=> (ret.depth[u] < max_depth /\ Siblings(u) # {})

\* C12's case: the build has returned; the list of one node named the same package
\* twice ("B" and "B (>=1)") and gave one edge, and one node with a non-empty
\* list sits at the depth bound and is no key
C12_Witness ==
    /\ pc = "returned"
    /\ \E u \in DictKeys(ret.adj) :
          /\ Len(graph[u]) = 2
          /\ sanitize_requirement(graph[u][1]) = sanitize_requirement(graph[u][2])
          /\ DictGet(ret.adj, u) = {sanitize_requirement(graph[u][1])}
    /\ \E u \in DOMAIN ret.depth :
          ret.depth[u] = max_depth /\ Siblings(u) # {} /\ u \notin DictKeys(ret.adj)


\* the names of u's list whose lowercased form does not contain the lowercased filter
KeptByCase(u) ==
    {n \in Targets(u) : name_filter = << >> \/ ~Contains(Lower(n), Lower(name_filter))}

\* C13: names are stored as they are and matched against the filter without
\* regard to case: after build_bfs returns, the neighbours of every fetched node
\* are exactly the names of its list whose lowercased form does not contain the
\* lowercased filter, each of them a key of the depth map of its own, so that
\* "B" and "b" are two nodes.
C13_CaseHandling ==
    pc = "returned"
    => \A u \in Members(calls) :
          /\ DictGet(ret.adj, u) = KeptByCase(u)
          /\ KeptByCase(u) \subseteq DOMAIN ret.depth

\* C13's case: a build with the filter "a" or "A" has returned; "B" and "b" are
\* two nodes with an edge from one to the other, and "A", named in a fetched list,
\* is excluded
C13_Witness ==
    /\ pc = "returned"
    /\ name_filter = <<"a">>
    /\ {sB, sLowB} \subseteq DOMAIN ret.depth
    /\ sLowB \in DictGet(ret.adj, sB)
    /\ sB \notin DictGet(ret.adj, sB)
    /\ \E u \in Members(calls) : sA \in Targets(u)


\* ------------------------------------------------------- the lines of a tree
\* the node lines of t
NodeLines(t) == {i \in 1..Len(t) : ~t[i].marker}

\* the node lines on the path from the root line to line i of t, i itself excluded
AncestorLines(t, i) ==
    {j \in NodeLines(t) :
        /\ j < i
        /\ t[j].level < t[i].level
        /\ \A k \in NodeLines(t) : (j < k /\ k < i) => t[k].level > t[j].level}

Ancestors(t, i) == {t[j].node : j \in AncestorLines(t, i)}

\* the lines emitted beneath node line i of t: its marker and the lines of its subtree
Beneath(t, i) ==
    {k \in (i + 1)..Len(t) :
        \A m \in (i + 1)..k :
            \/ t[m].level > t[i].level
            \/ t[m].marker /\ m = i + 1}

\* the lines of the children of node line i of t
ChildLines(t, i) == {k \in Beneath(t, i) \cap NodeLines(t) : t[k].level = t[i].level + 1}

\* the adjacency map of the cycle A -> B -> C -> A
CycleABC == [n \in Names |-> IF n = sA THEN {sB} ELSE IF n = sB THEN {sC} ELSE {sA}]

\* "A", "  B", "    C", "      A", "        (cycle A)", joined by newlines
CycleABCText ==
    <<"A", "\n", " ", " ", "B", "\n", " ", " ", " ", " ", "C", "\n",
      " ", " ", " ", " ", " ", " ", "A", "\n",
      " ", " ", " ", " ", " ", " ", " ", " ", "(", "c", "y", "c", "l", "e", " ", "A", ")">>

\* C14: in the tree ascii_tree returns, a node line at a depth below max_depth whose
\* node is among its ancestors on the path from the root has exactly one line
\* beneath it, the cycle marker naming that node, one indentation level (two
\* spaces) deeper, and no line of a child; the cycle A -> B -> C -> A with
\* max_depth of 4 or more renders from A as A, B, C, A and the marker for A, each
\* one level deeper than the line before.
C14_CycleMarker ==
    pc = "printed"
    => /\ \A i \in NodeLines(tree) :
             (tree[i].level < max_depth /\ tree[i].node \in Ancestors(tree, i))
             => /\ Beneath(tree, i) = {i + 1}
                /\ tree[i + 1].marker
                /\ tree[i + 1].node = tree[i].node
                /\ tree[i + 1].prefix = tree[i].prefix \o <<" ", " ">>
       /\ (AsMap(adj) = CycleABC /\ max_depth >= 4 /\ tree[1].node = sA)
          => JoinLines(tree) = CycleABCText

\* C14's case: the tree of the cycle A -> B -> C -> A was rendered from A with
\* max_depth 4 and ends with the marker beneath the second A
C14_Witness ==
    /\ pc = "printed"
    /\ AsMap(adj) = CycleABC
    /\ max_depth = 4
    /\ tree[1].node = sA
    /\ Len(tree) = 5
    /\ tree[5].marker
    /\ tree[4].node \in Ancestors(tree, 4)


ParentLine(t, i) == CHOOSE j \in AncestorLines(t, i) : \A k \in AncestorLines(t, i) : k <= j

MaxOut ==
    LET ns == {Cardinality(DictGet(adj, k)) : k \in DictKeys(adj)} \cup {0}
    IN  CHOOSE n \in ns : \A m \in ns : m <= n

\* the number of nodes of a full tree of depth k with MaxOut children per node
RECURSIVE TreeBound(_)
TreeBound(k) == IF k = 0 THEN 1 ELSE 1 + MaxOut * TreeBound(k - 1)

\* C16: ascii_tree returns, on every adjacency map, a tree of at most as many node
\* lines as a full tree of depth max_depth has; the root line has depth 0 and a
\* line is at most one level deeper than the line before it; a node line of depth
\* k is prefixed with exactly 2*k spaces, no node line is deeper than max_depth,
\* and a node line of depth max_depth or more has nothing beneath it.
C16_DepthAndIndent ==
    pc = "printed"
    => /\ Cardinality(NodeLines(tree)) <= TreeBound(max_depth)
       /\ tree[1].level = 0
       /\ \A i \in 2..Len(tree) : tree[i].level <= tree[i - 1].level + 1
       /\ \A i \in NodeLines(tree) :
             /\ Len(tree[i].prefix) = 2 * tree[i].level
             /\ \A c \in 1..Len(tree[i].prefix) : tree[i].prefix[c] = " "
             /\ tree[i].level <= max_depth
             /\ tree[i].level >= max_depth => Beneath(tree, i) = {}

\* C16's case: the tree of a cyclic adjacency map; a node line at depth max_depth
\* whose node has neighbours and is among its own ancestors, with no child and no
\* marker beneath it
C16_Witness ==
    /\ pc = "printed"
    /\ \E i \in NodeLines(tree) :
          /\ tree[i].level = max_depth
          /\ DictGet(adj, tree[i].node) # {}
          /\ tree[i].node \in Ancestors(tree, i)
          /\ i < Len(tree)


\* the dicts with the entries of d in any order of insertion
Reordered(d) ==
    {p \in [1..Len(d) -> Members(d)] : Members(p) = Members(d)}

\* C17: in the tree ascii_tree returns, the child lines of every node line are in
\* ascending lexicographic order of their names, and the adjacency map with its
\* keys inserted in any other order renders to the same text.
C17_SortedChildren ==
    pc = "printed"
    => /\ \A i \in NodeLines(tree) : \A j, k \in ChildLines(tree, i) :
             j < k => StrLess(tree[j].node, tree[k].node)
       /\ \A d \in Reordered(adj) :
             JoinLines(ascii_tree(d, tree[1].node)) = JoinLines(tree)

\* C17's case: the tree from A, whose list names C before B, over an adjacency map
\* whose keys were inserted in the order A, C, B: the line of B comes before the
\* line of C
C17_Witness ==
    /\ pc = "printed"
    /\ tree[1].node = sA
    /\ graph[sA] = <<sC, sB>>
    /\ Len(adj) = 3
    /\ adj[2].key = sC /\ adj[3].key = sB
    /\ \E j, k \in ChildLines(tree, 1) : j < k /\ tree[j].node = sB /\ tree[k].node = sC


\* s with every "[...]" segment removed, leftmost and shortest first, whatever
\* characters the segment holds
RECURSIVE WithoutSegments(_)
WithoutSegments(s) ==
    LET opens == {i \in 1..Len(s) : s[i] = "[" /\ \E j \in (i+1)..Len(s) : s[j] = "]"}
    IN  IF opens = {}
        THEN s
        ELSE LET i == CHOOSE x \in opens : \A y \in opens : x <= y
                 j == CHOOSE x \in (i+1)..Len(s) :
                         s[x] = "]" /\ \A y \in (i+1)..(x-1) : s[y] # "]"
             IN  SubSeq(s, 1, i - 1) \o WithoutSegments(Drop(s, j + 1))

\* the characters the claim says a sanitized name is free of
NoNameChars == {";"} \cup Whitespace \cup {"(", "<", ">", "=", "!"}

\* C18 as claimed: sanitize_requirement returns "" for "", and otherwise the prefix,
\* up to the first whitespace, "(", "<", ">", "=" or "!", of the text before the
\* first ";" with its surrounding whitespace and every "[...]" segment removed;
\* the result has none of the characters ";", whitespace, "(", "<", ">", "=", "!".
C18_Original ==
    pc = "called"
    => /\ call_arg = << >> => call_result = << >>
       /\ call_arg # << >>
          => call_result = Before(WithoutSegments(Strip(Before(call_arg, {";"}))), SplitChars)
       /\ \A i \in 1..Len(call_result) : call_result[i] \notin NoNameChars


\* the JSON attempt with outcome o failed: the request or the parsing raised
JsonFailed(o) == ~o.ok \/ NotStr \in Members(o.requires)

\* C19: get_direct_dependencies of the three Sources raises nothing, and returns
\* the empty list for a name the fixture does not have, for a remote source whose
\* two requests both failed, and for a local repository whose files for the
\* package are missing, unreadable or malformed.
C19_SourcesNeverRaise ==
    pc = "called"
    => /\ ~call_result.raised
       /\ (call_arg.source = "LocalGraphSource" /\ call_arg.name \notin DOMAIN graph)
          => call_result.value = << >>
       /\ (/\ call_arg.source = "PyPISource"
           /\ Len(attempts) = 2
           /\ JsonFailed(attempts[1].outcome)
           /\ ~attempts[2].outcome.ok)
          => call_result.value = << >>
       /\ (/\ call_arg.source = "LocalMetadataFilesSource"
           /\ \A i \in 1..Len(attempts) : attempts[i].kind \in {"unreadable", "malformed"})
          => call_result.value = << >>

\* C19's case: the local-metadata source has returned the empty list for a
\* package with two files, one unreadable and one malformed
C19_Witness ==
    /\ pc = "called"
    /\ call_arg.source = "LocalMetadataFilesSource"
    /\ Len(attempts) = 2
    /\ attempts[1].kind = "unreadable"
    /\ attempts[2].kind = "malformed"
    /\ call_result = Ok(<< >>)


\* C20: the remote source asks the JSON API first and the project page only after
\* a failed JSON attempt; a JSON attempt that succeeded is the only request and
\* its names are the result, also when "requires_dist" is null or empty; after a
\* failed JSON attempt a page that was fetched gives the result, and a page that
\* was not gives the empty list.
C20_JsonThenHtml ==
    /\ pc = "html"
       => /\ Len(attempts) = 1
          /\ attempts[1].url = ApiUrl(call_arg.name)
          /\ JsonFailed(attempts[1].outcome)
    /\ (pc = "called" /\ call_arg.source = "PyPISource")
       => /\ Len(attempts) \in {1, 2}
          /\ attempts[1].url = ApiUrl(call_arg.name)
          /\ ~JsonFailed(attempts[1].outcome)
             => /\ Len(attempts) = 1
                /\ call_result = Ok(IF attempts[1].outcome.requires = NoneList
                                     THEN << >>
                                     ELSE NonEmptyNames(attempts[1].outcome.requires))
          /\ JsonFailed(attempts[1].outcome)
             => /\ Len(attempts) = 2
                /\ attempts[2].url = PageUrl(call_arg.name)
                /\ call_result = Ok(IF attempts[2].outcome.ok
                                     THEN html_extract(attempts[2].outcome.matches)
                                     ELSE << >>)

\* C20's case: the JSON attempt succeeded with an empty "requires_dist" and the
\* call returned the empty list without a request for the page
C20_Witness ==
    /\ pc = "called"
    /\ call_arg.source = "PyPISource"
    /\ Len(attempts) = 1
    /\ attempts[1].outcome.ok
    /\ attempts[1].outcome.requires = << >>
    /\ call_result = Ok(<< >>)


\* the file can be read and holds a JSON object
IsDictFile(f) == f.kind = "dict"

\* the nested shape of file f raises: "requires_dist" holds a value that is no str
NestedRaises(f) ==
    IsDictFile(f) /\ f.has_info /\ f.requires # NoneList /\ NotStr \in Members(f.requires)

\* what the nested shape info.requires_dist of file f yields
NestedYield(f) ==
    IF IsDictFile(f) /\ f.has_info /\ f.requires # NoneList /\ ~NestedRaises(f)
    THEN SanitizedList(f.requires)
    ELSE << >>

\* what the flat shape of file f yields for the package
FlatYield(f, package_name) ==
    IF IsDictFile(f) /\ package_name \in DOMAIN f.names THEN f.names[package_name] ELSE << >>

\* what file f yields: the nested shape first, the flat one when that yields nothing
FileYield(f, package_name) ==
    IF NestedYield(f) # << >>
    THEN NestedYield(f)
    ELSE IF NestedRaises(f) THEN << >> ELSE FlatYield(f, package_name)

\* C21: the local-metadata source returns what the first of its candidate files, in
\* order, with a non-empty yield yields, and the empty list when there is none; a
\* file yields its nested info.requires_dist list when that is not empty, and its
\* flat list under the package name only when the nested shape yields nothing.
C21_FirstNonEmpty ==
    (pc = "called" /\ call_arg.source = "LocalMetadataFilesSource")
    => LET yields == [i \in 1..Len(attempts) |-> FileYield(attempts[i], call_arg.name)]
           hits   == {i \in 1..Len(attempts) : yields[i] # << >>}
       IN  /\ hits = {} => call_result = Ok(<< >>)
           /\ hits # {} => call_result = Ok(yields[CHOOSE i \in hits : \A j \in hits : i <= j])

\* C21's case: the first candidate yields nothing, the second has both shapes and
\* its nested list was returned, the third would have yielded another list
C21_Witness ==
    /\ pc = "called"
    /\ call_arg.source = "LocalMetadataFilesSource"
    /\ Len(attempts) >= 2
    /\ FileYield(attempts[1], call_arg.name) = << >>
    /\ NestedYield(attempts[2]) # << >>
    /\ FlatYield(attempts[2], call_arg.name) # << >>
    /\ FlatYield(attempts[2], call_arg.name) # NestedYield(attempts[2])
    /\ call_result = Ok(NestedYield(attempts[2]))


\* main has constructed the DependencyGraph of line 318
BuilderExists == pc \notin {"argv", "parsed", "source", "exit", "failed"}

\* C22: with a fixture path that does not exist, or a fixture file that holds no
\* JSON object, main never gets past the construction of LocalGraphSource: there is
\* no source and no builder, and no Source call was made; a fixture file that holds
\* an object never fails there, and a value of it that is no list, a single name,
\* is in the graph as the list of that one value.
C22_FixtureLoad ==
    /\ call_arg.repo.kind \in {"missing", "malformed", "not_dict"}
       => /\ pc \in {"argv", "parsed", "exit", "failed"}
          /\ calls = << >>
          /\ popped = << >>
          /\ graph = EmptyMap
    /\ pc = "failed"
       => /\ call_arg.repo.kind \in {"missing", "malformed", "not_dict"}
          /\ ~BuilderExists
          /\ calls = << >>
    /\ (call_arg.repo.kind = "dict" /\ (pc = "source" \/ BuilderExists))
       => /\ DOMAIN graph = DOMAIN call_arg.repo.content
          /\ \A k \in DOMAIN graph :
                LET x == call_arg.repo.content[k]
                IN  graph[k] = IF x.is_list THEN x.items ELSE <<x.value>>

\* C22's case: the fixture file holds no JSON object and the construction of the
\* source has failed, for a command line that is valid otherwise
C22_Witness ==
    /\ pc = "failed"
    /\ call_arg.repo.kind = "not_dict"
    /\ call_arg.package_name = sA
    /\ call_arg.max_depth = <<"2">>
    /\ calls = << >>

\* the coerced single name is what the Source returned in a finished traversal
C22_CoercedUsed ==
    /\ pc = "returned"
    /\ call_arg.repo.kind = "dict"
    /\ call_arg.repo.content[sA] = FileSingle(sB)
    /\ graph[sA] = <<sB>>
    /\ sA \in Members(calls)
    /\ DictGet(adj, sA) = {sB}

\* C23: a depth bound that is zero or negative never gets past parse_args: every
\* DependencyGraph has max_depth > 0, so has every traversal and every Source call.
C23_PositiveDepth ==
    /\ BuilderExists => max_depth > 0
    /\ (pc \in {"while", "for"} \/ calls # << >> \/ popped # << >>) => max_depth > 0
    /\ pc \notin {"argv", "exit"} => call_result.max_depth > 0
    /\ (call_arg.max_depth # << >> /\ ~int_raises(call_arg.max_depth)
          /\ int(call_arg.max_depth) <= 0)
       => pc \in {"argv", "exit"} /\ calls = << >> /\ popped = << >>

\* C23's case: the depth bound 0 on a command line that is valid otherwise, rejected
C23_Witness ==
    /\ pc = "exit"
    /\ call_arg.max_depth = <<"0">>
    /\ call_arg.package_name = sA
    /\ call_arg.repo.kind = "dict"
    /\ ~BuilderExists
    /\ calls = << >>


\* C24: in a build_bfs run no name is put into the queue twice or taken from it
\* twice, the Source is called at most once for a name, only for names taken from
\* the queue, and never for a name whose depth is max_depth or more.
C24_OncePerName ==
    /\ Distinct(popped \o q)
    /\ Distinct(calls)
    /\ Members(calls) \subseteq Members(popped)
    /\ \A i \in 1..Len(calls) : calls[i] \in DOMAIN depth /\ depth[calls[i]] < max_depth

\* C24's case: a finished run that met the root again on a cycle, called the Source
\* for two names and took a name at the depth bound from the queue without a call
C24_Witness ==
    /\ pc = "returned"
    /\ Len(calls) >= 2
    /\ Len(popped) > Len(calls)
    /\ \E e \in found : e[2] = root
    /\ \E i \in 1..Len(popped) :
          popped[i] \notin Members(calls) /\ depth[popped[i]] = max_depth

\* the queue holds at most two neighbouring depths, in order, none below the
\* depth of a name taken from it before
FrontierOrder ==
    /\ \A i, j \in 1..Len(q) :
          i < j => depth[q[i]] <= depth[q[j]] /\ depth[q[j]] <= depth[q[i]] + 1
    /\ \A i, j \in 1..Len(popped) : i < j => depth[popped[i]] <= depth[popped[j]]
    /\ \A i \in 1..Len(popped), j \in 1..Len(q) : depth[popped[i]] <= depth[q[j]]
    /\ \A i, j \in 1..Len(calls) : i < j => depth[calls[i]] <= depth[calls[j]]

\* a step that takes a name from the queue takes one no less deep than the last
PopInOrder ==
    (Len(popped') = Len(popped) + 1 /\ popped # << >>)
    => depth'[popped'[Len(popped')]] >= depth[popped[Len(popped)]]

\* C25: over a build_bfs run the depths of the names taken from the queue, and of
\* the names the Source is called for, never decrease, and in every state the
\* depths of the names in the queue do not decrease from head to tail and differ
\* by at most 1.
C25_FrontierByFrontier == []FrontierOrder /\ [][PopInOrder]_vars

\* C25's case: two frontiers in the queue, after names of both depths 0 and 1 were
\* taken from it
C25_Witness ==
    /\ Running
    /\ Len(q) >= 2
    /\ depth[q[Len(q)]] = depth[q[1]] + 1
    /\ Len(popped) >= 2
    /\ depth[popped[Len(popped)]] > depth[popped[1]]

\* the name of the requirement the for loop is at
NextName == sanitize_requirement(Head(deps))

\* the pass of the for loop for a name that is in seen leaves depth as it is
SeenLeavesDepth ==
    (pc = "for" /\ deps # << >> /\ ~sanitize_raises(Head(deps)) /\ NextName \in seen)
    => depth' = depth

\* C26: in every state of a build_bfs run seen is the key set of depth and every
\* name in the queue is in it, so the branch for a name seen before, the
\* setdefault of line 245, never changes depth.
C26_SeenIsDepthKeys ==
    [](seen = DOMAIN depth /\ Members(q) \subseteq seen) /\ [][SeenLeavesDepth]_vars

\* C26's case: the for loop is at a name that is in seen and passes the filter
C26_Witness ==
    /\ pc = "for"
    /\ deps # << >>
    /\ NextName \in seen
    /\ passes_filter(NextName)
    /\ depth[NextName] < depth[current] + 1
    /\ q # << >>


\* C27: two sources that list the same requirements for every name, in different
\* orders, give the same result for the same root, max_depth and filter: the second
\* builder returns the adjacency map, as name -> set, and the depth map that the
\* first returned.
C27_OrderIndependent ==
    (pc = "returned" /\ call_arg # << >>)
    => /\ AsMap(ret.adj) = call_result.adj
       /\ ret.depth = call_result.depth

\* C27's case: both builds have returned; the second source listed the two
\* requirements of a node both builds fetched in the other order, so the names
\* came into the queue in the other order; there is a cycle and a node at the bound
C27_Witness ==
    /\ pc = "returned"
    /\ call_arg # << >>
    /\ \E n \in Members(calls) :
          /\ Len(graph[n]) = 2
          /\ graph[n] # call_arg[2][n]
          /\ Cardinality(DictGet(ret.adj, n)) = 2
    /\ \E e \in found : ret.depth[e[2]] <= ret.depth[e[1]]
    /\ \E n \in DOMAIN ret.depth : ret.depth[n] = max_depth /\ Targets(n) # {}


\* C28: a builder constructed with no filter, or with the empty string as filter,
\* has no filter: every non-empty name passes, the root is not rejected, and a
\* finished build has for every node it fetched all the names of its list as
\* neighbours.
C28_EmptyFilter ==
    (BuilderExists /\ call_arg.filter \in {NoFilter, << >>})
    => /\ name_filter = << >>
       /\ \A n \in Names : passes_filter(n)
       /\ pc = "returned"
          => /\ root \in DOMAIN ret.depth
             /\ \A u \in Members(calls) : DictGet(ret.adj, u) = Targets(u)

\* C28's case: --filter "" on the command line, and a finished build with an edge
C28_Witness ==
    /\ pc = "returned"
    /\ call_arg.filter = << >>
    /\ root = sA
    /\ sA \in Members(calls)
    /\ Targets(sA) # {}
    /\ DictGet(ret.adj, sA) = Targets(sA)


\* the second call of sanitize_requirement returns its argument
SecondCallKeeps == (pc = "called" /\ pc' = "sanitized") => call_result' = call_result

\* C29: sanitize_requirement is idempotent over the strings of letters, whitespace
\* and ";", "[", "]", "(", "<", ">", "=", "!": called with a name it returned, it
\* returns that name, so the builder's second sanitization changes nothing.
C29_Idempotent == [][SecondCallKeeps]_vars

\* C29's case: the first call removed a "[...]" segment and cut the string at a
\* blank, and its result, not empty, was sanitized again
C29_Witness ==
    /\ pc = "sanitized"
    /\ call_result # << >>
    /\ call_arg # call_result
    /\ "[" \in Members(call_arg)
    /\ " " \in Members(call_arg)
    /\ call_result = sanitize_requirement(call_arg)


\* the archive has a name below the path: a longer name that starts with the path
\* and a '/'
HasEntryUnder(path) ==
    \E n \in zip_file.names :
        StartsWith(n, TargetPath(path)) /\ Len(n) > Len(TargetPath(path))

\* a call that returns False leaves current_path as it was
FalseKeepsPath == call_result' = RetFalse => current_path' = current_path

\* C30: after any sequence of change_directory calls, a call that returned True
\* has left current_path empty, the root, or a path below which the archive has a
\* file or a folder, and a call that returns False leaves current_path as it was
\* before the call.
C30_ChangeDirectory ==
    /\ [](call_result = RetTrue => (current_path = << >> \/ HasEntryUnder(current_path)))
    /\ [](current_path # << >> => (zip_file.open /\ HasEntryUnder(current_path)))
    /\ [][FalseKeepsPath]_vars

\* C30's case: calls that returned True have led to "a/b", and the last call, for
\* a folder the archive does not have, returned False and left "a/b"
C30_Witness ==
    /\ current_path = <<"a", "/", "b">>
    /\ call_result = RetFalse
    /\ call_arg = <<"b">>
    /\ <<"a", "/", "b", "/", "a">> \in zip_file.names

====
